---- MODULE Spec2Model ----
(***************************************************************************)
(* Model of the lavender backend: the rule-based DecisionEngine            *)
(* (services/decisionEngine.js), the classifier wrapper AIService          *)
(* (services/aiService.js) and the analysis route (routes/analysis.js,     *)
(* kept in index.js).                                                      *)
(*                                                                         *)
(* Numbers are fixed-point with one decimal: every sensor value, range     *)
(* limit and NPK estimate is the real value times ten (6.5 is 65, 100 is   *)
(* 1000).  A readings object is a sequence of [key, value] entries with    *)
(* distinct keys, in the insertion order JavaScript keeps for object keys. *)
(* An absent property is a field that is not in the DOMAIN of a record.    *)
(* Free-text fields that only interpolate the confidence are left out.     *)
(***************************************************************************)
EXTENDS Integers, Sequences, FiniteSets, TLC

VARIABLES
    op,         \* name of the engine method applied last ("none" at start)
    input,      \* arguments of that call
    output,     \* value returned by that call
    pc,         \* position of the route handler
    req,        \* the HTTP request: file present, parsed sensorData
    pyshell,    \* the classifier process: state, exit error, collected output
    promise,    \* the promise returned by analyzeImage
    timer,      \* the 30 second timer of analyzeImage
    engine,     \* calls of analyzeSituation made by the route
    res,        \* responses sent for the request, in order
    clock,      \* Date.now() as the upload middleware reads it
    disk,       \* the uploads directory: file name to stored image
    reqs        \* two requests in flight at once: position, file, result

vars == <<op, input, output, pc, req, pyshell, promise, timer, engine, res,
          clock, disk, reqs>>
unitVars == <<op, input, output>>
routeVars == <<pc, req, pyshell, promise, timer, engine, res>>
concVars == <<clock, disk, reqs>>

----------------------------------------------------------------------------
(* Bounds of the explored inputs *)

\* largest number of sensors in an enumerated readings object
MaxReadings == 3
\* largest length of vision.possible_issues
MaxIssues == 2
\* largest value of Date.now() while the two concurrent requests arrive
MaxClock == 1

----------------------------------------------------------------------------
(* JavaScript values *)

Undefined == [undefined |-> TRUE]
Null == [null |-> TRUE]
Falsy(x) == x \in {Undefined, Null}

Min(a, b) == IF a < b THEN a ELSE b
Max(a, b) == IF a > b THEN a ELSE b
Abs(a) == IF a < 0 THEN 0 - a ELSE a

\* String.prototype.includes
Includes(s, sub) ==
    \E i \in 1..(Len(s) - Len(sub) + 1) : SubSeq(s, i, i + Len(sub) - 1) = sub

\* obj[k] !== undefined for a readings object
Has(obj, k) == \E i \in 1..Len(obj) : obj[i].key = k
\* obj[k], for a key that is present
Get(obj, k) == obj[CHOOSE i \in 1..Len(obj) : obj[i].key = k].value
\* obj[k] < n and obj[k] > n: a comparison with undefined is false
Lt(obj, k, n) == Has(obj, k) /\ Get(obj, k) < n
Gt(obj, k, n) == Has(obj, k) /\ Get(obj, k) > n

----------------------------------------------------------------------------
(* DecisionEngine *)

sensorStandards ==
    [nitrogen    |-> [min |-> 400, max |-> 800, optimal |-> 600, unit |-> "ppm"],
     phosphorus  |-> [min |-> 200, max |-> 500, optimal |-> 350, unit |-> "ppm"],
     potassium   |-> [min |-> 300, max |-> 700, optimal |-> 500, unit |-> "ppm"],
     moisture    |-> [min |-> 200, max |-> 400, optimal |-> 300, unit |-> "%"],
     temperature |-> [min |-> 150, max |-> 300, optimal |-> 220, unit |-> "C"],
     ph          |-> [min |-> 65,  max |-> 75,  optimal |-> 70,  unit |-> "pH"],
     ec          |-> [min |-> 10,  max |-> 30,  optimal |-> 20,  unit |-> "mS/cm"]]

\* this.sensorStandards[key] is truthy
HasStandard(key) == key \in DOMAIN sensorStandards

\* calculateNPKFromECpH with the Math.max(0, ...) floor forgotten
calculateNPKFromECpH_NoFloor(ec, ph) ==
    [nitrogen   |-> Min(1000, (ec * 25) + ((ph - 60) * 10)),
     phosphorus |-> Min(1000, (ec * 15) + ((70 - Abs(70 - ph)) * 15)),
     potassium  |-> Min(1000, (ec * 20) + ((ph - 65) * 12))]

calculateNPKFromECpH(ec, ph) ==
    [nitrogen   |-> Min(1000, Max(0, (ec * 25) + ((ph - 60) * 10))),
     phosphorus |-> Min(1000, Max(0, (ec * 15) + ((70 - Abs(70 - ph)) * 15))),
     potassium  |-> Min(1000, Max(0, (ec * 20) + ((ph - 65) * 12)))]

\* IssueOf with the test against min forgotten
IssueOf_OnlyAboveMax(e) ==
    IF HasStandard(e.key) /\ e.value > sensorStandards[e.key].max
    THEN <<[sensor |-> e.key, value |-> e.value,
            unit |-> sensorStandards[e.key].unit,
            min |-> sensorStandards[e.key].min,
            max |-> sensorStandards[e.key].max,
            severity |-> "high"]>>
    ELSE <<>>

\* IssueOf with <= and >= for < and >
IssueOf_Inclusive(e) ==
    IF HasStandard(e.key)
       /\ (e.value <= sensorStandards[e.key].min \/ e.value >= sensorStandards[e.key].max)
    THEN <<[sensor |-> e.key, value |-> e.value,
            unit |-> sensorStandards[e.key].unit,
            min |-> sensorStandards[e.key].min,
            max |-> sensorStandards[e.key].max,
            severity |-> IF e.value < sensorStandards[e.key].min THEN "low" ELSE "high"]>>
    ELSE <<>>

\* the issue pushed for one entry, or nothing
IssueOf(e) ==
    IF HasStandard(e.key)
       /\ (e.value < sensorStandards[e.key].min \/ e.value > sensorStandards[e.key].max)
    THEN <<[sensor |-> e.key, value |-> e.value,
            unit |-> sensorStandards[e.key].unit,
            min |-> sensorStandards[e.key].min,
            max |-> sensorStandards[e.key].max,
            severity |-> IF e.value < sensorStandards[e.key].min THEN "low" ELSE "high"]>>
    ELSE <<>>

RECURSIVE CollectIssues(_)
CollectIssues(sensorData) ==
    IF sensorData = <<>> THEN <<>>
    ELSE IssueOf(Head(sensorData)) \o CollectIssues(Tail(sensorData))

checkSensorValidity(sensorData) ==
    LET issues == CollectIssues(sensorData)
    IN  [hasIssues |-> Len(issues) > 0, issues |-> issues]

\* Object.keys(sensorData).find(k => sensorData[k] === val)
FindKeyByValue(sensorData, val) ==
    LET i == CHOOSE i \in 1..Len(sensorData) :
                 /\ sensorData[i].value = val
                 /\ \A j \in 1..(i - 1) : sensorData[j].value # val
    IN  sensorData[i].key

\* assessSensorCredibility with allZero computed by some() instead of every()
assessSensorCredibility_SomeZero(sensorData) ==
    LET allZero == \E i \in 1..Len(sensorData) : sensorData[i].value = 0
        allMax  == \A i \in 1..Len(sensorData) :
                      LET val == sensorData[i].value
                          key == FindKeyByValue(sensorData, val)
                      IN  HasStandard(key) /\ val = 1000
        issues  == checkSensorValidity(sensorData)
    IN  IF allZero
        THEN [status |-> "malfunctioning", confidence |-> "low",
              recommendation |-> "Check sensor connections and power supply"]
        ELSE IF allMax
        THEN [status |-> "suspicious", confidence |-> "medium",
              recommendation |-> "Verify sensor calibration"]
        ELSE [status |-> IF issues.hasIssues THEN "needs_attention" ELSE "credible",
              confidence |-> "high",
              recommendation |-> IF issues.hasIssues THEN "Adjust sensor values"
                                 ELSE "Sensors working properly"]

\* assessSensorCredibility with allMax not asking for a standard
assessSensorCredibility_AnyKeyMax(sensorData) ==
    LET allZero == \A i \in 1..Len(sensorData) : sensorData[i].value = 0
        allMax  == \A i \in 1..Len(sensorData) : sensorData[i].value = 1000
        issues  == checkSensorValidity(sensorData)
    IN  IF allZero
        THEN [status |-> "malfunctioning", confidence |-> "low",
              recommendation |-> "Check sensor connections and power supply"]
        ELSE IF allMax
        THEN [status |-> "suspicious", confidence |-> "medium",
              recommendation |-> "Verify sensor calibration"]
        ELSE [status |-> IF issues.hasIssues THEN "needs_attention" ELSE "credible",
              confidence |-> "high",
              recommendation |-> IF issues.hasIssues THEN "Adjust sensor values"
                                 ELSE "Sensors working properly"]

\* assessSensorCredibility with allMax computed by some() instead of every()
assessSensorCredibility_SomeMax(sensorData) ==
    LET allZero == \A i \in 1..Len(sensorData) : sensorData[i].value = 0
        allMax  == \E i \in 1..Len(sensorData) :
                      LET val == sensorData[i].value
                          key == FindKeyByValue(sensorData, val)
                      IN  HasStandard(key) /\ val = 1000
        issues  == checkSensorValidity(sensorData)
    IN  IF allZero
        THEN [status |-> "malfunctioning", confidence |-> "low",
              recommendation |-> "Check sensor connections and power supply"]
        ELSE IF allMax
        THEN [status |-> "suspicious", confidence |-> "medium",
              recommendation |-> "Verify sensor calibration"]
        ELSE [status |-> IF issues.hasIssues THEN "needs_attention" ELSE "credible",
              confidence |-> "high",
              recommendation |-> IF issues.hasIssues THEN "Adjust sensor values"
                                 ELSE "Sensors working properly"]

assessSensorCredibility(sensorData) ==
    LET allZero == \A i \in 1..Len(sensorData) : sensorData[i].value = 0
        allMax  == \A i \in 1..Len(sensorData) :
                      LET val == sensorData[i].value
                          key == FindKeyByValue(sensorData, val)
                      IN  HasStandard(key) /\ val = 1000
        issues  == checkSensorValidity(sensorData)
    IN  IF allZero
        THEN [status |-> "malfunctioning", confidence |-> "low",
              recommendation |-> "Check sensor connections and power supply"]
        ELSE IF allMax
        THEN [status |-> "suspicious", confidence |-> "medium",
              recommendation |-> "Verify sensor calibration"]
        ELSE [status |-> IF issues.hasIssues THEN "needs_attention" ELSE "credible",
              confidence |-> "high",
              recommendation |-> IF issues.hasIssues THEN "Adjust sensor values"
                                 ELSE "Sensors working properly"]

\* calculatedNPK || sensorData, as a readings object
NpkValues(sensorData, calculatedNPK) ==
    IF Falsy(calculatedNPK) THEN sensorData
    ELSE <<[key |-> "nitrogen",   value |-> calculatedNPK.nitrogen],
           [key |-> "phosphorus", value |-> calculatedNPK.phosphorus],
           [key |-> "potassium",  value |-> calculatedNPK.potassium]>>

\* detectNutrientDeficiencies with <= for <
detectNutrientDeficiencies_Inclusive(sensorData, calculatedNPK) ==
    LET npkValues == NpkValues(sensorData, calculatedNPK)
    IN  (IF Lt(npkValues, "nitrogen", 401) THEN <<"Nitrogen (N)">> ELSE <<>>)
        \o (IF Lt(npkValues, "phosphorus", 201) THEN <<"Phosphorus (P)">> ELSE <<>>)
        \o (IF Lt(npkValues, "potassium", 301) THEN <<"Potassium (K)">> ELSE <<>>)

detectNutrientDeficiencies(sensorData, calculatedNPK) ==
    LET npkValues == NpkValues(sensorData, calculatedNPK)
    IN  (IF Lt(npkValues, "nitrogen", 400) THEN <<"Nitrogen (N)">> ELSE <<>>)
        \o (IF Lt(npkValues, "phosphorus", 200) THEN <<"Phosphorus (P)">> ELSE <<>>)
        \o (IF Lt(npkValues, "potassium", 300) THEN <<"Potassium (K)">> ELSE <<>>)

Diagnosis(verdict, confidence, requiresImmediateAction) ==
    [verdict |-> verdict, confidence |-> confidence,
     requiresImmediateAction |-> requiresImmediateAction]

\* "Case 1: CNN and sensors agree"; Undefined when the block returns nothing
\* the agreement case with a final else that takes any other prediction for
\* a disease
AgreeCase_ElseDisease(aiPrediction, sensorIssues) ==
    IF \/ (aiPrediction = "healthy" /\ ~sensorIssues.hasIssues)
       \/ (aiPrediction # "healthy" /\ sensorIssues.hasIssues)
    THEN IF aiPrediction = "healthy"
         THEN Diagnosis("PLANT IS HEALTHY", "very_high", FALSE)
         ELSE IF aiPrediction = "nutrient_deficient"
         THEN Diagnosis("NUTRIENT DEFICIENCY CONFIRMED", "high", TRUE)
         ELSE Diagnosis("DISEASE DETECTED", "high", TRUE)
    ELSE Undefined

AgreeCase(aiPrediction, sensorIssues) ==
    IF \/ (aiPrediction = "healthy" /\ ~sensorIssues.hasIssues)
       \/ (aiPrediction # "healthy" /\ sensorIssues.hasIssues)
    THEN IF aiPrediction = "healthy"
         THEN Diagnosis("PLANT IS HEALTHY", "very_high", FALSE)
         ELSE IF aiPrediction = "nutrient_deficient"
         THEN Diagnosis("NUTRIENT DEFICIENCY CONFIRMED", "high", TRUE)
         ELSE IF aiPrediction = "diseased"
         THEN Diagnosis("DISEASE DETECTED", "high", TRUE)
         ELSE Undefined
    ELSE Undefined

\* generateIntelligentDiagnosis ending without its final return
Inconclusive_Missing == Undefined

\* the final return of generateIntelligentDiagnosis
Inconclusive == Diagnosis("INCONCLUSIVE", "low", FALSE)

\* generateIntelligentDiagnosis without the malfunctioning test of case 2
generateIntelligentDiagnosis_NoMalfunctionTest(aiPrediction, sensorData, sensorAssessment, calculatedNPK) ==
    LET sensorIssues == checkSensorValidity(sensorData)
        agree == AgreeCase(aiPrediction, sensorIssues)
    IN  IF agree # Undefined THEN agree
        ELSE IF aiPrediction = "healthy" /\ sensorIssues.hasIssues
        THEN Diagnosis("EARLY WARNING", "medium", TRUE)
        ELSE IF aiPrediction # "healthy" /\ ~sensorIssues.hasIssues
        THEN Diagnosis("VISUAL ISSUE DETECTED", "medium", TRUE)
        ELSE Inconclusive

\* generateIntelligentDiagnosis with an EARLY WARNING that asks for no
\* immediate action
generateIntelligentDiagnosis_WarningNotUrgent(aiPrediction, sensorData, sensorAssessment, calculatedNPK) ==
    LET sensorIssues == checkSensorValidity(sensorData)
        agree == AgreeCase(aiPrediction, sensorIssues)
    IN  IF agree # Undefined THEN agree
        ELSE IF aiPrediction = "healthy" /\ sensorIssues.hasIssues
        THEN IF sensorAssessment.status = "malfunctioning"
             THEN Diagnosis("SENSOR MALFUNCTION", "high", FALSE)
             ELSE Diagnosis("EARLY WARNING", "medium", FALSE)
        ELSE IF aiPrediction # "healthy" /\ ~sensorIssues.hasIssues
        THEN Diagnosis("VISUAL ISSUE DETECTED", "medium", TRUE)
        ELSE Inconclusive

generateIntelligentDiagnosis(aiPrediction, sensorData, sensorAssessment, calculatedNPK) ==
    LET sensorIssues == checkSensorValidity(sensorData)
        agree == AgreeCase(aiPrediction, sensorIssues)
    IN  IF agree # Undefined THEN agree
        ELSE IF aiPrediction = "healthy" /\ sensorIssues.hasIssues
        THEN IF sensorAssessment.status = "malfunctioning"
             THEN Diagnosis("SENSOR MALFUNCTION", "high", FALSE)
             ELSE Diagnosis("EARLY WARNING", "medium", TRUE)
        ELSE IF aiPrediction # "healthy" /\ ~sensorIssues.hasIssues
        THEN Diagnosis("VISUAL ISSUE DETECTED", "medium", TRUE)
        ELSE Inconclusive

\* the error raised by reading a property of undefined
TypeError == [threw |-> "TypeError"]

\* determineEmergencyLevel with && for || in the test for high
determineEmergencyLevel_AndForOr(diagnosis, sensorAssessment) ==
    IF diagnosis = Undefined THEN TypeError
    ELSE IF Includes(diagnosis.verdict, "DISEASE") /\ diagnosis.requiresImmediateAction
    THEN [level |-> "high", color |-> "red", message |-> "IMMEDIATE ACTION REQUIRED"]
    ELSE IF sensorAssessment.status = "malfunctioning"
            \/ Includes(diagnosis.verdict, "WARNING")
    THEN [level |-> "medium", color |-> "orange", message |-> "ATTENTION NEEDED"]
    ELSE [level |-> "low", color |-> "green", message |-> "MONITOR REGULARLY"]

determineEmergencyLevel(diagnosis, sensorAssessment) ==
    IF diagnosis = Undefined THEN TypeError
    ELSE IF Includes(diagnosis.verdict, "DISEASE") \/ diagnosis.requiresImmediateAction
    THEN [level |-> "high", color |-> "red", message |-> "IMMEDIATE ACTION REQUIRED"]
    ELSE IF sensorAssessment.status = "malfunctioning"
            \/ Includes(diagnosis.verdict, "WARNING")
    THEN [level |-> "medium", color |-> "orange", message |-> "ATTENTION NEEDED"]
    ELSE [level |-> "low", color |-> "green", message |-> "MONITOR REGULARLY"]

getNutrientAction(deficiency) ==
    IF deficiency = "Nitrogen (N)" THEN "APPLY NITROGEN-RICH FERTILIZER (20-10-10)"
    ELSE IF deficiency = "Phosphorus (P)" THEN "ADD BONE MEAL OR ROCK PHOSPHATE"
    ELSE IF deficiency = "Potassium (K)" THEN "APPLY POTASH OR POTASSIUM SULFATE"
    ELSE "APPLY BALANCED FERTILIZER"

\* recommendations.sort((a, b) => a.priority - b.priority): a stable sort
RECURSIVE InsertByPriority(_, _)
InsertByPriority(rec, sorted) ==
    IF sorted = <<>> THEN <<rec>>
    ELSE IF Head(sorted).priority <= rec.priority
    THEN <<Head(sorted)>> \o InsertByPriority(rec, Tail(sorted))
    ELSE <<rec>> \o sorted

\* a sort by priority that reverses the entries of equal priority
SortByPriority_TiesReversed(recs) ==
    LET reversed == [i \in 1..Len(recs) |-> recs[Len(recs) + 1 - i]]
        bucket(p) == SelectSeq(reversed, LAMBDA r : r.priority = p)
    IN  bucket(1) \o bucket(2) \o bucket(3) \o bucket(4) \o bucket(5)

\* the list returned without being sorted
SortByPriority_Unsorted(recs) == recs

RECURSIVE SortByPriority(_)
SortByPriority(recs) ==
    IF recs = <<>> THEN <<>>
    ELSE InsertByPriority(recs[Len(recs)], SortByPriority(SubSeq(recs, 1, Len(recs) - 1)))

\* the list with the nutrient priorities counted from 3
UnsortedRecommendations_FromThree(sensorData, emergencyLevel) ==
    LET deficiencies == detectNutrientDeficiencies(sensorData, Undefined)
    IN  (IF emergencyLevel.level = "high"
         THEN <<[action |-> "ISOLATE PLANT", priority |-> 1]>> ELSE <<>>)
        \o [index \in 1..Len(deficiencies) |->
               [action |-> getNutrientAction(deficiencies[index]),
                priority |-> 2 + index]]
        \o (IF Lt(sensorData, "moisture", 200)
            THEN <<[action |-> "WATER IMMEDIATELY", priority |-> 2]>>
            ELSE IF Gt(sensorData, "moisture", 400)
            THEN <<[action |-> "REDUCE WATERING", priority |-> 2]>>
            ELSE <<>>)
        \o (IF Lt(sensorData, "ph", 65)
            THEN <<[action |-> "ADD LIME TO RAISE pH", priority |-> 3]>>
            ELSE IF Gt(sensorData, "ph", 75)
            THEN <<[action |-> "ADD SULFUR TO LOWER pH", priority |-> 3]>>
            ELSE <<>>)

\* the list with the nutrients detected on the estimate when there is one
UnsortedRecommendations_UsesEstimate(sensorData, emergencyLevel) ==
    LET calculatedNPK ==
            IF Has(sensorData, "ec") /\ Has(sensorData, "ph")
            THEN calculateNPKFromECpH(Get(sensorData, "ec"), Get(sensorData, "ph"))
            ELSE Null
        deficiencies == detectNutrientDeficiencies(sensorData, calculatedNPK)
    IN  (IF emergencyLevel.level = "high"
         THEN <<[action |-> "ISOLATE PLANT", priority |-> 1]>> ELSE <<>>)
        \o [index \in 1..Len(deficiencies) |->
               [action |-> getNutrientAction(deficiencies[index]),
                priority |-> 2 + (index - 1)]]
        \o (IF Lt(sensorData, "moisture", 200)
            THEN <<[action |-> "WATER IMMEDIATELY", priority |-> 2]>>
            ELSE IF Gt(sensorData, "moisture", 400)
            THEN <<[action |-> "REDUCE WATERING", priority |-> 2]>>
            ELSE <<>>)
        \o (IF Lt(sensorData, "ph", 65)
            THEN <<[action |-> "ADD LIME TO RAISE pH", priority |-> 3]>>
            ELSE IF Gt(sensorData, "ph", 75)
            THEN <<[action |-> "ADD SULFUR TO LOWER pH", priority |-> 3]>>
            ELSE <<>>)

\* the list as it is before the final sort
UnsortedRecommendations(sensorData, emergencyLevel) ==
    LET deficiencies == detectNutrientDeficiencies(sensorData, Undefined)
    IN  (IF emergencyLevel.level = "high"
         THEN <<[action |-> "ISOLATE PLANT", priority |-> 1]>> ELSE <<>>)
        \o [index \in 1..Len(deficiencies) |->
               [action |-> getNutrientAction(deficiencies[index]),
                priority |-> 2 + (index - 1)]]
        \o (IF Lt(sensorData, "moisture", 200)
            THEN <<[action |-> "WATER IMMEDIATELY", priority |-> 2]>>
            ELSE IF Gt(sensorData, "moisture", 400)
            THEN <<[action |-> "REDUCE WATERING", priority |-> 2]>>
            ELSE <<>>)
        \o (IF Lt(sensorData, "ph", 65)
            THEN <<[action |-> "ADD LIME TO RAISE pH", priority |-> 3]>>
            ELSE IF Gt(sensorData, "ph", 75)
            THEN <<[action |-> "ADD SULFUR TO LOWER pH", priority |-> 3]>>
            ELSE <<>>)

\* the early return without the emergency action pushed before it
MalfunctionRecommendations_NoIsolate(emergencyLevel) ==
    <<[action |-> "CHECK SENSOR CONNECTIONS", priority |-> 1]>>

\* the early return taken for malfunctioning sensors
MalfunctionRecommendations(emergencyLevel) ==
    (IF emergencyLevel.level = "high"
     THEN <<[action |-> "ISOLATE PLANT", priority |-> 1]>> ELSE <<>>)
    \o <<[action |-> "CHECK SENSOR CONNECTIONS", priority |-> 1]>>

\* generateActionableRecommendations without the early return
generateActionableRecommendations_NoEarlyReturn(diagnosis, sensorData, sensorAssessment, emergencyLevel) ==
    LET rest == UnsortedRecommendations(sensorData, emergencyLevel)
        isolate == IF emergencyLevel.level = "high" THEN 1 ELSE 0
    IN  SortByPriority(
            SubSeq(rest, 1, isolate)
            \o (IF sensorAssessment.status = "malfunctioning"
                THEN <<[action |-> "CHECK SENSOR CONNECTIONS", priority |-> 1]>>
                ELSE <<>>)
            \o SubSeq(rest, isolate + 1, Len(rest)))

\* generateActionableRecommendations isolating the plant at level medium too
generateActionableRecommendations_IsolateUnlessLow(diagnosis, sensorData, sensorAssessment, emergencyLevel) ==
    IF sensorAssessment.status = "malfunctioning"
    THEN (IF emergencyLevel.level # "low"
          THEN <<[action |-> "ISOLATE PLANT", priority |-> 1]>> ELSE <<>>)
         \o <<[action |-> "CHECK SENSOR CONNECTIONS", priority |-> 1]>>
    ELSE SortByPriority(UnsortedRecommendations(sensorData, emergencyLevel))

generateActionableRecommendations(diagnosis, sensorData, sensorAssessment, emergencyLevel) ==
    IF sensorAssessment.status = "malfunctioning"
    THEN MalfunctionRecommendations(emergencyLevel)
    ELSE SortByPriority(UnsortedRecommendations(sensorData, emergencyLevel))

\* issue.replace('_deficiency', ''): the first occurrence is removed
StripDeficiency(issue) ==
    LET sub == "_deficiency"
        hits == {i \in 1..(Len(issue) - Len(sub) + 1) :
                    SubSeq(issue, i, i + Len(sub) - 1) = sub}
    IN  IF hits = {} THEN issue
        ELSE LET i == CHOOSE h \in hits : \A g \in hits : h <= g
             IN  SubSeq(issue, 1, i - 1) \o SubSeq(issue, i + Len(sub), Len(issue))

\* String.prototype.toUpperCase on the tags that occur
ToUpperCase(s) ==
    CASE s = "nitrogen"   -> "NITROGEN"
      [] s = "test_issue" -> "TEST_ISSUE"
      [] s = "leaf_spot"  -> "LEAF_SPOT"
      [] s = "root_rot"   -> "ROOT_ROT"
      [] OTHER            -> s

VisualDeficiency(aiResult, issue) ==
    IF "confidence" \in DOMAIN aiResult
    THEN [type |-> "visual", deficiency |-> ToUpperCase(StripDeficiency(issue)),
          detectedBy |-> "CNN Model", confidence |-> aiResult.confidence]
    ELSE [type |-> "visual", deficiency |-> ToUpperCase(StripDeficiency(issue)),
          detectedBy |-> "CNN Model"]

\* SensorDeficiency with <= for < at the threshold
SensorDeficiency_Inclusive(npkValues, key, name, threshold, severe) ==
    IF Lt(npkValues, key, threshold + 1)
    THEN <<[type |-> "sensor", deficiency |-> name, level |-> Get(npkValues, key),
            unit |-> "ppm", detectedBy |-> "Soil Sensor",
            severity |-> IF Get(npkValues, key) < severe THEN "severe" ELSE "moderate"]>>
    ELSE <<>>

SensorDeficiency(npkValues, key, name, threshold, severe) ==
    IF Lt(npkValues, key, threshold)
    THEN <<[type |-> "sensor", deficiency |-> name, level |-> Get(npkValues, key),
            unit |-> "ppm", detectedBy |-> "Soil Sensor",
            severity |-> IF Get(npkValues, key) < severe THEN "severe" ELSE "moderate"]>>
    ELSE <<>>

\* identifySpecificDeficiencies reading the raw sensor values only
identifySpecificDeficiencies_RawOnly(aiResult, sensorData, calculatedNPK) ==
    (IF "possible_issues" \in DOMAIN aiResult
     THEN [i \in 1..Len(aiResult.possible_issues) |->
              VisualDeficiency(aiResult, aiResult.possible_issues[i])]
     ELSE <<>>)
    \o SensorDeficiency(sensorData, "nitrogen", "NITROGEN", 400, 200)
    \o SensorDeficiency(sensorData, "phosphorus", "PHOSPHORUS", 200, 100)
    \o SensorDeficiency(sensorData, "potassium", "POTASSIUM", 300, 150)

identifySpecificDeficiencies(aiResult, sensorData, calculatedNPK) ==
    LET npkValues == NpkValues(sensorData, calculatedNPK)
    IN  (IF "possible_issues" \in DOMAIN aiResult
         THEN [i \in 1..Len(aiResult.possible_issues) |->
                  VisualDeficiency(aiResult, aiResult.possible_issues[i])]
         ELSE <<>>)
        \o SensorDeficiency(npkValues, "nitrogen", "NITROGEN", 400, 200)
        \o SensorDeficiency(npkValues, "phosphorus", "PHOSPHORUS", 200, 100)
        \o SensorDeficiency(npkValues, "potassium", "POTASSIUM", 300, 150)

\* generateNextSteps choosing the template by the level instead of the flag
generateNextSteps_ByLevel(emergencyLevel, requiresImmediateAction) ==
    IF emergencyLevel.level # "low"
    THEN [title |-> "WHAT TO DO NEXT",
          steps |-> <<"1. Review emergency actions below",
                      "2. Implement highest priority recommendations first",
                      "3. Take photos after treatment for comparison",
                      "4. Re-analyze in 3-5 days">>,
          buttonText |-> IF emergencyLevel.level = "high"
                         THEN "TAKE EMERGENCY ACTION" ELSE "START RECOVERY PLAN"]
    ELSE [title |-> "RECOMMENDED NEXT STEPS",
          steps |-> <<"1. Review recommendations below",
                      "2. Adjust care routine as suggested",
                      "3. Monitor plant daily",
                      "4. Re-analyze weekly for improvements">>,
          buttonText |-> "VIEW ACTION PLAN"]

generateNextSteps(emergencyLevel, requiresImmediateAction) ==
    IF requiresImmediateAction
    THEN [title |-> "WHAT TO DO NEXT",
          steps |-> <<"1. Review emergency actions below",
                      "2. Implement highest priority recommendations first",
                      "3. Take photos after treatment for comparison",
                      "4. Re-analyze in 3-5 days">>,
          buttonText |-> IF emergencyLevel.level = "high"
                         THEN "TAKE EMERGENCY ACTION" ELSE "START RECOVERY PLAN"]
    ELSE [title |-> "RECOMMENDED NEXT STEPS",
          steps |-> <<"1. Review recommendations below",
                      "2. Adjust care routine as suggested",
                      "3. Monitor plant daily",
                      "4. Re-analyze weekly for improvements">>,
          buttonText |-> "VIEW ACTION PLAN"]

\* a thrown error, as opposed to a returned value
Threw(x) == x = TypeError

analyzeSituation(aiResult, sensorData) ==
    LET aiPrediction == aiResult.prediction
        sensorAssessment == assessSensorCredibility(sensorData)
        sensorIssues == checkSensorValidity(sensorData)
        calculatedNPK ==
            IF Has(sensorData, "ec") /\ Has(sensorData, "ph")
            THEN calculateNPKFromECpH(Get(sensorData, "ec"), Get(sensorData, "ph"))
            ELSE Null
        diagnosis == generateIntelligentDiagnosis(aiPrediction, sensorData,
                                                  sensorAssessment, calculatedNPK)
        emergencyLevel == determineEmergencyLevel(diagnosis, sensorAssessment)
    IN  IF Threw(emergencyLevel) THEN TypeError
        ELSE [emergencyLevel |-> emergencyLevel,
              visualAssessment |-> [prediction |-> aiPrediction],
              sensorAssessment |->
                  [status |-> sensorAssessment.status,
                   confidence |-> sensorAssessment.confidence,
                   recommendation |-> sensorAssessment.recommendation,
                   readings |-> sensorData,
                   calculatedNPK |-> calculatedNPK,
                   issues |-> sensorIssues.issues],
              intelligentDiagnosis |-> diagnosis,
              deficiencies |-> identifySpecificDeficiencies(aiResult, sensorData,
                                                            calculatedNPK),
              recommendations |-> generateActionableRecommendations(
                                      diagnosis, sensorData, sensorAssessment,
                                      emergencyLevel),
              nextSteps |-> generateNextSteps(emergencyLevel,
                                              diagnosis.requiresImmediateAction)]

----------------------------------------------------------------------------
(* Inputs *)

\* object keys in the order a client writes them; "humidity" has no standard
KeyOrder == <<"nitrogen", "phosphorus", "potassium", "moisture",
              "temperature", "ph", "ec", "humidity">>

\* values tried for each key: zero, below min, a range limit, above max, 100
ValuesOf(key) ==
    CASE key = "nitrogen"    -> {0, 300, 400, 1000}
      [] key = "phosphorus"  -> {0, 150, 500}
      [] key = "potassium"   -> {0, 200, 300}
      [] key = "moisture"    -> {0, 400, 1000}
      [] key = "temperature" -> {0 - 50, 150}
      [] key = "ph"          -> {0, 65, 80}
      [] key = "ec"          -> {0, 10, 30}
      [] OTHER               -> {0, 1000}

Reverse(seq) == [i \in 1..Len(seq) |-> seq[Len(seq) + 1 - i]]

\* the readings objects over the keys KeyOrder[i], KeyOrder[i+1], ... with at
\* most n entries, written in the order of KeyOrder
RECURSIVE ReadingsFrom(_, _)
ReadingsFrom(i, n) ==
    IF i > Len(KeyOrder) \/ n = 0 THEN {<<>>}
    ELSE ReadingsFrom(i + 1, n)
         \cup {<<[key |-> KeyOrder[i], value |-> v]>> \o rest :
                  v \in ValuesOf(KeyOrder[i]), rest \in ReadingsFrom(i + 1, n - 1)}

\* the scenarios of the specification's section 8
ScenarioReadings ==
    { <<[key |-> "nitrogen", value |-> 600], [key |-> "phosphorus", value |-> 350],
        [key |-> "potassium", value |-> 500], [key |-> "moisture", value |-> 300],
        [key |-> "temperature", value |-> 220], [key |-> "ph", value |-> 70]>>,
      <<[key |-> "nitrogen", value |-> 100], [key |-> "phosphorus", value |-> 350],
        [key |-> "potassium", value |-> 500], [key |-> "moisture", value |-> 300],
        [key |-> "ph", value |-> 70]>>,
      <<[key |-> "nitrogen", value |-> 600], [key |-> "phosphorus", value |-> 350],
        [key |-> "potassium", value |-> 500], [key |-> "moisture", value |-> 100],
        [key |-> "temperature", value |-> 220], [key |-> "ph", value |-> 70]>>,
      <<[key |-> "nitrogen", value |-> 100], [key |-> "phosphorus", value |-> 50],
        [key |-> "potassium", value |-> 100], [key |-> "moisture", value |-> 100],
        [key |-> "ph", value |-> 60]>> }

\* values next to the thresholds the engine compares with
EdgeValuesOf(key) ==
    CASE key = "nitrogen"    -> {190, 200, 390, 400, 810}
      [] key = "phosphorus"  -> {90, 100, 190, 200, 510}
      [] key = "potassium"   -> {140, 150, 290, 300, 710}
      [] key = "moisture"    -> {0 - 10, 190, 200, 400, 410}
      [] key = "temperature" -> {140, 300, 310}
      [] key = "ph"          -> {64, 65, 75, 76}
      [] OTHER               -> {}

\* the scenarios with one value replaced, or with one more entry
ScenarioVariants ==
    {[r EXCEPT ![i].value = v] :
        <<r, i, v>> \in UNION {UNION {{<<r, i, v>> :
                                          v \in ValuesOf(r[i].key) \cup EdgeValuesOf(r[i].key)} :
                                      i \in 1..Len(r)} :
                               r \in ScenarioReadings}}
    \cup {Append(r, [key |-> k, value |-> v]) :
             r \in ScenarioReadings, k \in {"ec", "humidity"}, v \in {0, 20, 1000}}

\* readings objects: every choice of at most MaxReadings keys and one of
\* their values, written in KeyOrder or in the opposite order, the
\* scenarios and their variants
Readings ==
    ReadingsFrom(1, MaxReadings)
    \cup {Reverse(r) : r \in ReadingsFrom(1, MaxReadings)}
    \cup ScenarioReadings
    \cup ScenarioVariants

\* tags the classifier may list, in the order it lists them
IssueList == <<"nitrogen_deficiency", "leaf_spot", "root_rot_deficiency", "test_issue">>

\* the possible_issues arrays tried: the first n tags, n up to MaxIssues
PossibleIssues == {SubSeq(IssueList, 1, n) : n \in 0..Min(MaxIssues, Len(IssueList))}

Predictions == {"healthy", "nutrient_deficient", "diseased", "unknown"}

\* results of the classifier: the prediction may lie outside the three
\* classes and possible_issues may be absent
VisionResults ==
    [prediction : Predictions, confidence : {80}]
    \cup [prediction : Predictions, confidence : {80},
          possible_issues : PossibleIssues]

Verdicts == {"PLANT IS HEALTHY", "NUTRIENT DEFICIENCY CONFIRMED", "DISEASE DETECTED",
             "SENSOR MALFUNCTION", "EARLY WARNING", "VISUAL ISSUE DETECTED",
             "INCONCLUSIVE"}

\* texts no rule of the engine produces
OtherVerdicts == {"POSSIBLE DISEASE", "WARNING", "ALL CLEAR"}

Statuses == {"malfunctioning", "suspicious", "needs_attention", "credible"}

\* ec and ph arguments in tenths, negative and very large ones included
NPKInputs == {0 - 100000, 0 - 1000, 0 - 15, 0, 5, 10, 20, 30, 55, 60, 65, 70, 75,
              80, 140, 1000, 100000}

----------------------------------------------------------------------------
(* The engine's methods applied to arbitrary arguments: one call of one     *)
(* method per behaviour, the methods keeping no state between calls        *)

\* the uploads directory is empty and no concurrent request has arrived
NoFile == [owner |-> 0]
Requests == {1, 2}
OriginalNames == {"leaf.jpg", "plant.jpg"}
StoredNames == (0..MaxClock) \X OriginalNames
ConcIdle ==
    /\ clock = 0
    /\ disk = [f \in StoredNames |-> NoFile]
    /\ reqs = [r \in Requests |-> [pc |-> "idle"]]

UnitInit ==
    /\ op = "none" /\ input = <<>> /\ output = <<>>
    /\ pc = "idle"
    /\ req = <<>>
    /\ pyshell = [state |-> "none", terminated |-> FALSE, errored |-> FALSE]
    /\ promise = [state |-> "none"]
    /\ timer = "unset"
    /\ engine = <<>>
    /\ res = <<>>
    /\ ConcIdle

CallAnalyzeSituation ==
    /\ op = "none"
    /\ \E aiResult \in VisionResults, sensorData \in Readings :
           /\ op' = "analyzeSituation"
           /\ input' = [aiResult |-> aiResult, sensorData |-> sensorData]
           /\ output' = analyzeSituation(aiResult, sensorData)
           /\ UNCHANGED <<routeVars, concVars>>

CallAssessSensorCredibility ==
    /\ op = "none"
    /\ \E sensorData \in Readings :
           /\ op' = "assessSensorCredibility"
           /\ input' = [sensorData |-> sensorData]
           /\ output' = assessSensorCredibility(sensorData)
           /\ UNCHANGED <<routeVars, concVars>>

CallCheckSensorValidity ==
    /\ op = "none"
    /\ \E sensorData \in Readings :
           /\ op' = "checkSensorValidity"
           /\ input' = [sensorData |-> sensorData]
           /\ output' = checkSensorValidity(sensorData)
           /\ UNCHANGED <<routeVars, concVars>>

CallDetermineEmergencyLevel ==
    /\ op = "none"
    /\ \E verdict \in Verdicts \cup OtherVerdicts, requiresImmediateAction \in BOOLEAN, status \in Statuses :
           /\ op' = "determineEmergencyLevel"
           /\ input' = [diagnosis |-> Diagnosis(verdict, "high", requiresImmediateAction),
                        sensorAssessment |-> [status |-> status]]
           /\ output' = determineEmergencyLevel(input'.diagnosis, input'.sensorAssessment)
           /\ UNCHANGED <<routeVars, concVars>>

CallCalculateNPKFromECpH ==
    /\ op = "none"
    /\ \E ec \in NPKInputs, ph \in NPKInputs :
           /\ op' = "calculateNPKFromECpH"
           /\ input' = [ec |-> ec, ph |-> ph]
           /\ output' = calculateNPKFromECpH(ec, ph)
           /\ UNCHANGED <<routeVars, concVars>>

UnitNext ==
    \/ CallAnalyzeSituation
    \/ CallAssessSensorCredibility
    \/ CallCheckSensorValidity
    \/ CallDetermineEmergencyLevel
    \/ CallCalculateNPKFromECpH

UnitSpec == UnitInit /\ [][UnitNext]_vars

----------------------------------------------------------------------------
(* AIService and the analysis route: one request from arrival to response  *)

\* readings a request carries
RouteReadings ==
    ScenarioReadings
    \cup {<<>>,
          <<[key |-> "nitrogen", value |-> 0], [key |-> "moisture", value |-> 0]>>,
          <<[key |-> "ph", value |-> 80], [key |-> "ec", value |-> 10]>>}

\* the sensorData form field: missing, not JSON, or the JSON text of a mapping
SensorDataFields ==
    {[kind |-> "absent"], [kind |-> "garbled"]}
    \cup [kind : {"json"}, value : RouteReadings]

\* sensorData as the route parses it
ParseSensorData(field) == IF field.kind = "json" THEN field.value ELSE <<>>

\* what the classifier script prints as its JSON object
ClassifierResults ==
    [prediction : {"healthy", "nutrient_deficient", "diseased"}, confidence : {80},
     possible_issues : {<<>>, <<"nitrogen_deficiency">>}]
    \cup [prediction : {"error"}, error : {"model not loaded"}]

\* the text collected from the process: log lines around the JSON or not,
\* and no JSON object, braces that do not parse, or a JSON object
Outputs ==
    [noise : BOOLEAN,
     json : {[kind |-> "none"], [kind |-> "garbled"]}
            \cup [kind : {"object"}, value : ClassifierResults]]

Pending == [state |-> "pending"]
Resolved(value) == [state |-> "resolved", value |-> value]
Rejected(reason) == [state |-> "rejected", reason |-> reason]

\* a promise whose later resolve or reject replaces the outcome
Settle_Overwrite(p, outcome) == outcome

\* resolve and reject act on a pending promise only
Settle(p, outcome) == IF p.state = "pending" THEN outcome ELSE p

\* the callback given to pyshell.end
EndCallback(err, allOutput) ==
    IF err THEN Rejected("process error")
    ELSE IF ~allOutput.noise /\ allOutput.json.kind = "none"
    THEN Rejected("No output from Python script")
    ELSE IF ~allOutput.noise /\ allOutput.json.kind = "object"
    THEN IF allOutput.json.value.prediction = "error"
         THEN Rejected("AI model error")
         ELSE Resolved(allOutput.json.value)
    ELSE IF allOutput.json.kind = "object" THEN Resolved(allOutput.json.value)
    ELSE IF allOutput.json.kind = "garbled" THEN Rejected("Invalid JSON from Python")
    ELSE Rejected("No valid JSON response from Python script")

mockImageAnalysis ==
    {[prediction |-> randomPrediction, confidence |-> c,
      possible_issues |-> IF randomPrediction = "healthy" THEN <<>> ELSE <<"test_issue">>,
      test_mode |-> TRUE] :
        randomPrediction \in {"healthy", "nutrient_deficient", "diseased"},
        c \in {70, 94}}

Init ==
    /\ op = "none" /\ input = <<>> /\ output = <<>>
    /\ pc = "idle"
    /\ req = <<>>
    /\ pyshell = [state |-> "none", terminated |-> FALSE, errored |-> FALSE]
    /\ promise = [state |-> "none"]
    /\ timer = "unset"
    /\ engine = <<>>
    /\ res = <<>>
    /\ ConcIdle

\* the handler answering 400 without returning
PostRequest_NoReturn ==
    /\ pc = "idle"
    /\ \E hasFile \in BOOLEAN, field \in SensorDataFields :
           /\ req' = [hasFile |-> hasFile, sensorData |-> ParseSensorData(field)]
           /\ res' = IF hasFile THEN res
                     ELSE Append(res, [status |-> 400, success |-> FALSE])
           /\ pyshell' = [state |-> "running", terminated |-> FALSE, errored |-> FALSE]
           /\ promise' = Pending
           /\ timer' = "armed"
           /\ pc' = "awaiting"
    /\ UNCHANGED <<engine, unitVars, concVars>>

\* the handler up to the await: 400 without a file, else sensorData is parsed
\* and analyzeImage starts the process and the timer
PostRequest ==
    /\ pc = "idle"
    /\ \E hasFile \in BOOLEAN, field \in SensorDataFields :
           IF ~hasFile
           THEN /\ req' = [hasFile |-> FALSE]
                /\ res' = Append(res, [status |-> 400, success |-> FALSE])
                /\ pc' = "done"
                /\ UNCHANGED <<pyshell, promise, timer>>
           ELSE /\ req' = [hasFile |-> TRUE, sensorData |-> ParseSensorData(field)]
                /\ pyshell' = [state |-> "running", terminated |-> FALSE,
                               errored |-> FALSE]
                /\ promise' = Pending
                /\ timer' = "armed"
                /\ pc' = "awaiting"
                /\ UNCHANGED res
    /\ UNCHANGED <<engine, unitVars, concVars>>

\* the process closes and the end callback runs, also after a kill
PyshellEnd ==
    /\ pyshell.state \in {"running", "killed"}
    /\ \E err \in BOOLEAN, allOutput \in Outputs :
           /\ pyshell' = [state |-> "closed", terminated |-> TRUE,
                          errored |-> pyshell.errored, err |-> err,
                          output |-> allOutput]
           /\ promise' = Settle(promise, EndCallback(err, allOutput))
    /\ UNCHANGED <<pc, req, timer, engine, res, unitVars, concVars>>

\* the 'error' event of the shell
PyshellError ==
    /\ pyshell.state = "running"
    /\ ~pyshell.errored
    /\ pyshell' = [pyshell EXCEPT !.errored = TRUE]
    /\ promise' = Settle(promise, Rejected("shell error"))
    /\ UNCHANGED <<pc, req, timer, engine, res, unitVars, concVars>>

\* the 30 second timer
TimerFires ==
    /\ timer = "armed"
    /\ timer' = "fired"
    /\ IF pyshell.terminated
       THEN UNCHANGED <<pyshell, promise>>
       ELSE /\ pyshell' = [pyshell EXCEPT !.state = "killed"]
            /\ promise' = Settle(promise, Rejected("Python script timeout"))
    /\ UNCHANGED <<pc, req, engine, res, unitVars, concVars>>

\* the action names of a recommendation list
Actions(recs) == [i \in 1..Len(recs) |-> recs[i].action]

\* the response with the marker read from a property the mock does not set
Response_WrongMarker(aiResult, intelligentAnalysis) ==
    [status |-> 200, success |-> TRUE,
     mode |-> IF "testMode" \in DOMAIN aiResult /\ aiResult.testMode
              THEN "mock" ELSE "ai",
     cnnPrediction |-> aiResult.prediction,
     verdict |-> intelligentAnalysis.intelligentDiagnosis.verdict,
     emergencyLevel |-> intelligentAnalysis.emergencyLevel.level,
     deficiencies |-> intelligentAnalysis.deficiencies,
     recommendations |-> Actions(intelligentAnalysis.recommendations),
     nextSteps |-> intelligentAnalysis.nextSteps]

\* the response built from the analysis
Response(aiResult, intelligentAnalysis) ==
    [status |-> 200, success |-> TRUE,
     mode |-> IF "test_mode" \in DOMAIN aiResult /\ aiResult.test_mode
              THEN "mock" ELSE "ai",
     cnnPrediction |-> aiResult.prediction,
     verdict |-> intelligentAnalysis.intelligentDiagnosis.verdict,
     emergencyLevel |-> intelligentAnalysis.emergencyLevel.level,
     deficiencies |-> intelligentAnalysis.deficiencies,
     recommendations |-> Actions(intelligentAnalysis.recommendations),
     nextSteps |-> intelligentAnalysis.nextSteps]

\* the handler after the await: the mock replaces a rejected classification,
\* the engine runs and the response is sent (an error goes to next())
Resume ==
    /\ pc = "awaiting"
    /\ promise.state \in {"resolved", "rejected"}
    /\ \E aiResult \in (IF promise.state = "resolved" THEN {promise.value}
                        ELSE mockImageAnalysis) :
           LET intelligentAnalysis == analyzeSituation(aiResult, req.sensorData)
           IN  /\ engine' = Append(engine, aiResult)
               /\ res' = Append(res, IF Threw(intelligentAnalysis)
                                     THEN [status |-> 500, success |-> FALSE]
                                     ELSE Response(aiResult, intelligentAnalysis))
    /\ pc' = "done"
    /\ UNCHANGED <<req, pyshell, promise, timer, unitVars, concVars>>

Next ==
    \/ PostRequest
    \/ PyshellEnd
    \/ PyshellError
    \/ TimerFires
    \/ Resume

Spec == Init /\ [][Next]_vars

\* the step of the handler past its await: of the actions of Next only Resume
\* takes pc from "awaiting" to "done", and it can whenever the promise is
\* settled
AwaitContinues ==
    /\ pc = "awaiting"
    /\ promise.state \in {"resolved", "rejected"}
    /\ pc' = "done"

\* the event loop runs a due timer callback and the continuation of a settled
\* await; nothing obliges the process to end or to raise an error
FairSpec == Spec /\ WF_vars(TimerFires) /\ WF_pc(AwaitContinues)

----------------------------------------------------------------------------
(* Two requests handled at once: the upload middleware stores each image   *)
(* under Date.now() + '_' + originalname, the classifier process reads the *)
(* file at that path, the handler answers from what the classifier saw     *)

\* readings the two requests carry
ConcReadings ==
    {<<>>,
     <<[key |-> "nitrogen", value |-> 600], [key |-> "moisture", value |-> 300]>>,
     <<[key |-> "nitrogen", value |-> 100], [key |-> "moisture", value |-> 100]>>}

\* uniqueName = Date.now() + '_' + file.originalname
UniqueName(now, originalname) == <<now, originalname>>

\* what the classifier answers for an image
Classify(image) ==
    [prediction |-> image.shows, confidence |-> 80, possible_issues |-> <<>>]

ConcInit ==
    /\ op = "none" /\ input = <<>> /\ output = <<>>
    /\ pc = "idle"
    /\ req = <<>>
    /\ pyshell = [state |-> "none", terminated |-> FALSE, errored |-> FALSE]
    /\ promise = [state |-> "none"]
    /\ timer = "unset"
    /\ engine = <<>>
    /\ res = <<>>
    /\ ConcIdle

\* a millisecond passes
ConcTick ==
    /\ clock < MaxClock
    /\ clock' = clock + 1
    /\ UNCHANGED <<disk, reqs, routeVars, unitVars>>

\* request r arrives: its image is written under the generated name, the
\* handler parses sensorData and starts the classifier on that path
ConcUpload(r) ==
    /\ reqs[r].pc = "idle"
    /\ \E originalname \in OriginalNames,
          shows \in {"healthy", "nutrient_deficient", "diseased"},
          sensorData \in ConcReadings :
           LET filename == UniqueName(clock, originalname)
           IN  /\ disk' = [disk EXCEPT ![filename] = [owner |-> r, shows |-> shows]]
               /\ reqs' = [reqs EXCEPT ![r] =
                              [pc |-> "awaiting", filename |-> filename,
                               image |-> [owner |-> r, shows |-> shows],
                               sensorData |-> sensorData]]
    /\ UNCHANGED <<clock, routeVars, unitVars>>

\* the classifier of request r reads the file at its path and answers
ConcClassify(r) ==
    /\ reqs[r].pc = "awaiting"
    /\ reqs' = [reqs EXCEPT ![r] =
                   [pc |-> "classified", filename |-> reqs[r].filename,
                    image |-> reqs[r].image, sensorData |-> reqs[r].sensorData,
                    read |-> disk[reqs[r].filename],
                    aiResult |-> Classify(disk[reqs[r].filename])]]
    /\ UNCHANGED <<clock, disk, routeVars, unitVars>>

\* the handler of request r runs the engine and answers
ConcRespond(r) ==
    /\ reqs[r].pc = "classified"
    /\ reqs' = [reqs EXCEPT ![r] =
                   [pc |-> "done", filename |-> reqs[r].filename,
                    image |-> reqs[r].image, sensorData |-> reqs[r].sensorData,
                    read |-> reqs[r].read, aiResult |-> reqs[r].aiResult,
                    response |-> Response(reqs[r].aiResult,
                                          analyzeSituation(reqs[r].aiResult,
                                                           reqs[r].sensorData))]]
    /\ UNCHANGED <<clock, disk, routeVars, unitVars>>

ConcNext ==
    \/ ConcTick
    \/ \E r \in Requests : ConcUpload(r)
    \/ \E r \in Requests : ConcClassify(r)
    \/ \E r \in Requests : ConcRespond(r)

ConcSpec == ConcInit /\ [][ConcNext]_vars

----------------------------------------------------------------------------
(* Properties of the engine, stated over the call recorded in op, input,   *)
(* output                                                                   *)

Analyzed == op = "analyzeSituation" /\ ~Threw(output)

\* some supplied value lies outside the [min, max] of its sensor's standard
OutOfRange(sensorData) ==
    \E i \in 1..Len(sensorData) :
        /\ sensorData[i].key \in DOMAIN sensorStandards
        /\ \/ sensorData[i].value < sensorStandards[sensorData[i].key].min
           \/ sensorData[i].value > sensorStandards[sensorData[i].key].max

AllValues(sensorData, v) == \A i \in 1..Len(sensorData) : sensorData[i].value = v

\* the decision table of the specification, first matching row
DecisionTable(vision, issues, status) ==
    IF vision = "healthy" /\ ~issues THEN <<"PLANT IS HEALTHY", FALSE>>
    ELSE IF vision = "nutrient_deficient" /\ issues
    THEN <<"NUTRIENT DEFICIENCY CONFIRMED", TRUE>>
    ELSE IF vision = "diseased" /\ issues THEN <<"DISEASE DETECTED", TRUE>>
    ELSE IF vision = "healthy" /\ issues /\ status = "malfunctioning"
    THEN <<"SENSOR MALFUNCTION", FALSE>>
    ELSE IF vision = "healthy" /\ issues THEN <<"EARLY WARNING", TRUE>>
    ELSE IF vision # "healthy" /\ ~issues THEN <<"VISUAL ISSUE DETECTED", TRUE>>
    ELSE <<"INCONCLUSIVE", FALSE>>

\* C1: for a prediction in the three classes, the verdict and
\* requiresImmediateAction are those of the first matching row of the
\* decision table over (prediction, some reading out of range, status).
C1_DecisionTable ==
    (Analyzed /\ input.aiResult.prediction \in {"healthy", "nutrient_deficient", "diseased"})
    => <<output.intelligentDiagnosis.verdict,
         output.intelligentDiagnosis.requiresImmediateAction>>
       = DecisionTable(input.aiResult.prediction, OutOfRange(input.sensorData),
                       output.sensorAssessment.status)

C1_Witness ==
    /\ Analyzed
    /\ input.aiResult.prediction = "healthy"
    /\ OutOfRange(input.sensorData)
    /\ output.sensorAssessment.status = "malfunctioning"
    /\ output.intelligentDiagnosis.verdict = "SENSOR MALFUNCTION"

LevelTriple(level) ==
    CASE level = "high"   -> [level |-> "high", color |-> "red",
                              message |-> "IMMEDIATE ACTION REQUIRED"]
      [] level = "medium" -> [level |-> "medium", color |-> "orange",
                              message |-> "ATTENTION NEEDED"]
      [] level = "low"    -> [level |-> "low", color |-> "green",
                              message |-> "MONITOR REGULARLY"]

\* C2: the level is high when the verdict contains DISEASE or immediate
\* action is required, else medium when the status is malfunctioning or the
\* verdict contains WARNING, else low, with the fixed triple of that level.
C2_EmergencyLevel ==
    op = "determineEmergencyLevel"
    => LET verdict == input.diagnosis.verdict
           level == IF Includes(verdict, "DISEASE")
                       \/ input.diagnosis.requiresImmediateAction
                    THEN "high"
                    ELSE IF input.sensorAssessment.status = "malfunctioning"
                            \/ Includes(verdict, "WARNING")
                    THEN "medium" ELSE "low"
       IN  output = LevelTriple(level)

C2_Witness ==
    /\ op = "determineEmergencyLevel"
    /\ input.diagnosis.verdict = "EARLY WARNING"
    /\ ~input.diagnosis.requiresImmediateAction
    /\ input.sensorAssessment.status = "credible"
    /\ output.level = "medium"

\* C3: the status is malfunctioning exactly when every supplied value is 0
\* (the empty mapping included).
C3_MalfunctioningIffAllZero ==
    op = "assessSensorCredibility"
    => (output.status = "malfunctioning" <=> AllValues(input.sensorData, 0))

C3_Witness ==
    /\ op = "assessSensorCredibility"
    /\ Len(input.sensorData) >= 2
    /\ Has(input.sensorData, "humidity")
    /\ output.status = "malfunctioning"

\* C4 as stated: a non-empty mapping whose values are all exactly 100 is
\* suspicious, whatever its sensor names and their order.
C4_AllHundredSuspicious ==
    (op = "assessSensorCredibility"
     /\ input.sensorData # <<>> /\ AllValues(input.sensorData, 1000))
    => output.status = "suspicious"

C6_RecommendationsSorted ==
    Analyzed
    => \A i \in 1..Len(output.recommendations), j \in 1..Len(output.recommendations) :
           i < j => output.recommendations[i].priority <= output.recommendations[j].priority

C6_Witness ==
    /\ Analyzed
    /\ output.sensorAssessment.status # "malfunctioning"
    /\ Len(output.recommendations) >= 4
    /\ output.recommendations
         # UnsortedRecommendations(input.sensorData, output.emergencyLevel)

\* C7: with status malfunctioning the list is [CHECK SENSOR CONNECTIONS], or
\* [ISOLATE PLANT, CHECK SENSOR CONNECTIONS] when the level is high.
C7_MalfunctionRecommendations ==
    (Analyzed /\ output.sensorAssessment.status = "malfunctioning")
    => Actions(output.recommendations)
       = IF output.emergencyLevel.level = "high"
         THEN <<"ISOLATE PLANT", "CHECK SENSOR CONNECTIONS">>
         ELSE <<"CHECK SENSOR CONNECTIONS">>

C7_Witness ==
    /\ Analyzed
    /\ output.sensorAssessment.status = "malfunctioning"
    /\ output.emergencyLevel.level = "high"
    /\ Has(input.sensorData, "nitrogen") /\ Has(input.sensorData, "moisture")
    /\ Has(input.sensorData, "ph")

\* C9: analyzeSituation raises no error and returns a result with a sensor
\* assessment, a diagnosis that is not null, an emergency level, a deficiency
\* list, a recommendation list and a next-steps block.
C9_NoError ==
    op = "analyzeSituation"
    => /\ ~Threw(output)
       /\ {"sensorAssessment", "intelligentDiagnosis", "emergencyLevel",
           "deficiencies", "recommendations", "nextSteps"} \subseteq DOMAIN output
       /\ ~Falsy(output.intelligentDiagnosis)
       /\ output.intelligentDiagnosis.verdict \in Verdicts

C9_Witness ==
    /\ Analyzed
    /\ input.aiResult.prediction = "unknown"
    /\ "possible_issues" \notin DOMAIN input.aiResult
    /\ ~Has(input.sensorData, "ph")
    /\ Has(input.sensorData, "humidity")
    /\ output.intelligentDiagnosis.verdict = "INCONCLUSIVE"

Clamp(x) == IF x < 0 THEN 0 ELSE IF x > 1000 THEN 1000 ELSE x

\* C10: the three estimates lie in [0, 100] and are the clamped formulas.
C10_NPKClamped ==
    op = "calculateNPKFromECpH"
    => /\ \A n \in {output.nitrogen, output.phosphorus, output.potassium} :
              0 <= n /\ n <= 1000
       /\ output.nitrogen = Clamp(input.ec * 25 + (input.ph - 60) * 10)
       /\ output.phosphorus
            = Clamp(input.ec * 15
                    + (70 - (IF input.ph > 70 THEN input.ph - 70 ELSE 70 - input.ph)) * 15)
       /\ output.potassium = Clamp(input.ec * 20 + (input.ph - 65) * 12)

C10_Witness ==
    /\ op = "calculateNPKFromECpH"
    /\ input.ec < 0 /\ input.ph > 1000
    /\ output.nitrogen = 1000 /\ output.phosphorus = 0 /\ output.potassium = 1000

\* every supplied value of a recognised sensor other than those of except
\* lies within the [min, max] of its standard
InRangeExcept(sensorData, except) ==
    \A i \in 1..Len(sensorData) :
        (sensorData[i].key \in DOMAIN sensorStandards \ except)
        => /\ sensorData[i].value >= sensorStandards[sensorData[i].key].min
           /\ sensorData[i].value <= sensorStandards[sensorData[i].key].max

Supplied(sensorData, keys) == \A k \in keys : Has(sensorData, k)

\* the case of C15: nutrient_deficient, no ec, nitrogen below 20, and
\* phosphorus, potassium, moisture and ph supplied within range
NitrogenCase ==
    /\ op = "analyzeSituation"
    /\ input.aiResult.prediction = "nutrient_deficient"
    /\ ~Has(input.sensorData, "ec")
    /\ Lt(input.sensorData, "nitrogen", 200)
    /\ Supplied(input.sensorData, {"phosphorus", "potassium", "moisture", "ph"})
    /\ InRangeExcept(input.sensorData, {"nitrogen", "temperature"})

\* C15: in that case the verdict is NUTRIENT DEFICIENCY CONFIRMED with
\* requiresImmediateAction true, the deficiency list has a sensor entry
\* NITROGEN of severity severe, and the recommendation list has the
\* nitrogen-fertilizer action at priority 2.
C15_NitrogenScenario ==
    NitrogenCase
    => /\ ~Threw(output)
       /\ output.intelligentDiagnosis.verdict = "NUTRIENT DEFICIENCY CONFIRMED"
       /\ output.intelligentDiagnosis.requiresImmediateAction
       /\ \E i \in 1..Len(output.deficiencies) :
              /\ output.deficiencies[i].type = "sensor"
              /\ output.deficiencies[i].deficiency = "NITROGEN"
              /\ output.deficiencies[i].severity = "severe"
       /\ \E i \in 1..Len(output.recommendations) :
              output.recommendations[i]
                = [action |-> "APPLY NITROGEN-RICH FERTILIZER (20-10-10)", priority |-> 2]

C15_Witness ==
    /\ NitrogenCase
    /\ Get(input.sensorData, "nitrogen") = 190
    /\ Get(input.sensorData, "phosphorus") = 350
    /\ output.intelligentDiagnosis.verdict = "NUTRIENT DEFICIENCY CONFIRMED"
    /\ Len(output.recommendations) = 2

\* the case of C16: healthy, moisture below 20, every other supplied
\* recognised sensor within range
DryCase ==
    /\ op = "analyzeSituation"
    /\ input.aiResult.prediction = "healthy"
    /\ Lt(input.sensorData, "moisture", 200)
    /\ InRangeExcept(input.sensorData, {"moisture"})

EarlyWarningWater ==
    /\ ~Threw(output)
    /\ output.sensorAssessment.status # "malfunctioning"
    /\ output.intelligentDiagnosis.verdict = "EARLY WARNING"
    /\ output.intelligentDiagnosis.requiresImmediateAction
    /\ \E i \in 1..Len(output.recommendations) :
           output.recommendations[i].action = "WATER IMMEDIATELY"

\* C16 as stated: in the dry case the status is not malfunctioning, the
\* verdict is EARLY WARNING with requiresImmediateAction true and the
\* recommendations contain WATER IMMEDIATELY.
C16_DryEarlyWarning == DryCase => EarlyWarningWater

\* C16, amended: the same, for readings that are not all 0 (a moisture of 0
\* supplied alone or with other zeros is the all-zero malfunction).
C16_DryNotAllZeroEarlyWarning ==
    (DryCase /\ ~AllValues(input.sensorData, 0)) => EarlyWarningWater

C16_Witness ==
    /\ DryCase
    /\ Get(input.sensorData, "moisture") = 0
    /\ Len(input.sensorData) >= 2
    /\ EarlyWarningWater

\* the case of C17: healthy, at least one recognised sensor, every
\* recognised sensor within range
OptimalCase ==
    /\ op = "analyzeSituation"
    /\ input.aiResult.prediction = "healthy"
    /\ \E i \in 1..Len(input.sensorData) : HasStandard(input.sensorData[i].key)
    /\ InRangeExcept(input.sensorData, {})

\* C17: in that case the verdict is PLANT IS HEALTHY, the emergency level is
\* low and the recommendation list is empty.
C17_HealthyScenario ==
    OptimalCase
    => /\ ~Threw(output)
       /\ output.intelligentDiagnosis.verdict = "PLANT IS HEALTHY"
       /\ output.emergencyLevel.level = "low"
       /\ output.recommendations = <<>>

C17_Witness ==
    /\ OptimalCase
    /\ Len(input.sensorData) = 6
    /\ Get(input.sensorData, "moisture") = 400
    /\ output.intelligentDiagnosis.verdict = "PLANT IS HEALTHY"
    /\ output.recommendations = <<>>

\* the value tested for a nutrient: the estimate when both ec and ph are
\* supplied, else the raw reading; <<>> when there is none
Tested(sensorData, key) ==
    IF Has(sensorData, "ec") /\ Has(sensorData, "ph")
    THEN LET ec == Get(sensorData, "ec")
             ph == Get(sensorData, "ph")
         IN  CASE key = "nitrogen"   -> <<Clamp(ec * 25 + (ph - 60) * 10)>>
               [] key = "phosphorus" ->
                      <<Clamp(ec * 15 + (70 - (IF ph > 70 THEN ph - 70 ELSE 70 - ph)) * 15)>>
               [] key = "potassium"  -> <<Clamp(ec * 20 + (ph - 65) * 12)>>
    ELSE IF Has(sensorData, key) THEN <<Get(sensorData, key)>> ELSE <<>>

\* name and severity of the entry for one nutrient, or nothing
ExpectedEntry(sensorData, key, name, threshold, severe) ==
    LET t == Tested(sensorData, key)
    IN  IF t # <<>> /\ t[1] < threshold
        THEN <<[deficiency |-> name, level |-> t[1],
                severity |-> IF t[1] < severe THEN "severe" ELSE "moderate"]>>
        ELSE <<>>

ExpectedSensorEntries(sensorData) ==
    ExpectedEntry(sensorData, "nitrogen", "NITROGEN", 400, 200)
    \o ExpectedEntry(sensorData, "phosphorus", "PHOSPHORUS", 200, 100)
    \o ExpectedEntry(sensorData, "potassium", "POTASSIUM", 300, 150)

IssuesOf(aiResult) ==
    IF "possible_issues" \in DOMAIN aiResult THEN aiResult.possible_issues ELSE <<>>

\* C20: the deficiency list is one visual entry per element of
\* possible_issues in input order, then the sensor entries in the order
\* nitrogen, phosphorus, potassium: an entry iff the tested value is below 40,
\* 20, 30, severe below 20, 10, 15 and moderate otherwise; the tested values
\* are the estimate when both ec and ph are supplied and the raw readings
\* otherwise, and an absent nutrient gives no entry.
C20_DeficiencyList ==
    Analyzed
    => LET issues == IssuesOf(input.aiResult)
           expected == ExpectedSensorEntries(input.sensorData)
           list == output.deficiencies
       IN  /\ Len(list) = Len(issues) + Len(expected)
           /\ \A i \in 1..Len(issues) :
                  /\ list[i].type = "visual"
                  /\ list[i].deficiency = ToUpperCase(StripDeficiency(issues[i]))
           /\ \A i \in 1..Len(expected) :
                  LET e == list[Len(issues) + i]
                  IN  /\ e.type = "sensor"
                      /\ [deficiency |-> e.deficiency, level |-> e.level,
                          severity |-> e.severity] = expected[i]

C20_Witness ==
    /\ Analyzed
    /\ Len(IssuesOf(input.aiResult)) = 2
    /\ Has(input.sensorData, "ec") /\ Has(input.sensorData, "ph")
    /\ Has(input.sensorData, "nitrogen") /\ Get(input.sensorData, "nitrogen") = 1000
    /\ Len(output.deficiencies) >= 4
    /\ output.deficiencies[3].type = "sensor"
    /\ output.deficiencies[3].deficiency = "NITROGEN"

NutrientActions ==
    <<"APPLY NITROGEN-RICH FERTILIZER (20-10-10)", "ADD BONE MEAL OR ROCK PHOSPHATE",
      "APPLY POTASH OR POTASSIUM SULFATE">>

\* the raw reading of the n-th nutrient is below its threshold
RawBelow(sensorData, n) ==
    LET key == <<"nitrogen", "phosphorus", "potassium">>[n]
    IN  Has(sensorData, key) /\ Get(sensorData, key) < <<400, 200, 300>>[n]

\* the nutrient, watering and pH recommendations the readings call for
ExpectedRecommendations(sensorData) ==
    {[action |-> NutrientActions[n],
      priority |-> 2 + Cardinality({m \in 1..(n - 1) : RawBelow(sensorData, m)})] :
        n \in {m \in 1..3 : RawBelow(sensorData, m)}}
    \cup (IF Has(sensorData, "moisture") /\ Get(sensorData, "moisture") < 200
          THEN {[action |-> "WATER IMMEDIATELY", priority |-> 2]} ELSE {})
    \cup (IF Has(sensorData, "moisture") /\ Get(sensorData, "moisture") > 400
          THEN {[action |-> "REDUCE WATERING", priority |-> 2]} ELSE {})
    \cup (IF Has(sensorData, "ph") /\ Get(sensorData, "ph") < 65
          THEN {[action |-> "ADD LIME TO RAISE pH", priority |-> 3]} ELSE {})
    \cup (IF Has(sensorData, "ph") /\ Get(sensorData, "ph") > 75
          THEN {[action |-> "ADD SULFUR TO LOWER pH", priority |-> 3]} ELSE {})

NotIsolate(recs) == SelectSeq(recs, LAMBDA r : r.action # "ISOLATE PLANT")

\* C21: with a status other than malfunctioning the list has, besides
\* ISOLATE PLANT, a nutrient action for exactly the nutrients whose raw
\* reading is below 40, 20, 30 (the estimate is not used), the k-th detected
\* at priority 2+k, the watering action for moisture below 20 or above 40 at
\* priority 2 and the pH action for ph below 6.5 or above 7.5 at priority 3,
\* each once.
C21_RecommendationsFromRawReadings ==
    (Analyzed /\ output.sensorAssessment.status # "malfunctioning")
    => LET recs == NotIsolate(output.recommendations)
       IN  /\ {recs[i] : i \in 1..Len(recs)} = ExpectedRecommendations(input.sensorData)
           /\ Len(recs) = Cardinality(ExpectedRecommendations(input.sensorData))
           /\ ~\E i, j \in 1..Len(recs) :
                  /\ recs[i].action = "WATER IMMEDIATELY"
                  /\ recs[j].action = "REDUCE WATERING"
           /\ ~\E i, j \in 1..Len(recs) :
                  /\ recs[i].action = "ADD LIME TO RAISE pH"
                  /\ recs[j].action = "ADD SULFUR TO LOWER pH"

C21_Witness ==
    /\ Analyzed
    /\ output.sensorAssessment.status = "needs_attention"
    /\ Has(input.sensorData, "ec") /\ Has(input.sensorData, "ph")
    /\ Has(input.sensorData, "nitrogen") /\ Get(input.sensorData, "nitrogen") = 1000
    /\ output.sensorAssessment.calculatedNPK.nitrogen < 400
    /\ \A i \in 1..Len(output.recommendations) :
           output.recommendations[i].action # NutrientActions[1]

\* place of an action in the order of insertion
InsertionRank(action) ==
    CASE action = "ISOLATE PLANT" -> 0
      [] action = "CHECK SENSOR CONNECTIONS" -> 1
      [] action = NutrientActions[1] -> 2
      [] action = NutrientActions[2] -> 3
      [] action = NutrientActions[3] -> 4
      [] action \in {"WATER IMMEDIATELY", "REDUCE WATERING"} -> 5
      [] OTHER -> 6

TiesInInsertionOrder(recs) ==
    \A i, j \in 1..Len(recs) :
        (i < j /\ recs[i].priority = recs[j].priority)
        => InsertionRank(recs[i].action) < InsertionRank(recs[j].action)

\* all three nutrients deficient, low moisture and low pH
AllDeficientDryAcid(sensorData) ==
    /\ \A n \in 1..3 : RawBelow(sensorData, n)
    /\ Has(sensorData, "moisture") /\ Get(sensorData, "moisture") < 200
    /\ Has(sensorData, "ph") /\ Get(sensorData, "ph") < 65

SixInOrder ==
    <<[action |-> "ISOLATE PLANT", priority |-> 1],
      [action |-> NutrientActions[1], priority |-> 2],
      [action |-> "WATER IMMEDIATELY", priority |-> 2],
      [action |-> NutrientActions[2], priority |-> 3],
      [action |-> "ADD LIME TO RAISE pH", priority |-> 3],
      [action |-> NutrientActions[3], priority |-> 4]>>

Offending(sensorData) ==
    SelectSeq(sensorData,
              LAMBDA e : /\ e.key \in {"nitrogen", "phosphorus", "potassium", "moisture",
                                       "temperature", "ph", "ec"}
                         /\ \/ e.value < sensorStandards[e.key].min
                            \/ e.value > sensorStandards[e.key].max)

\* C23: checkSensorValidity records an issue for a supplied sensor iff its
\* name is in the standards table and its value is strictly below min or
\* strictly above max, with severity low below min and high otherwise and
\* the standard's unit, min and max; other names give no issue, and the
\* issues are in the order of the input mapping.
C23_IssuesOfOutOfRangeSensors ==
    op = "checkSensorValidity"
    => LET bad == Offending(input.sensorData)
       IN  /\ output.hasIssues <=> bad # <<>>
           /\ Len(output.issues) = Len(bad)
           /\ \A i \in 1..Len(bad) :
                  LET std == sensorStandards[bad[i].key]
                  IN  output.issues[i]
                        = [sensor |-> bad[i].key, value |-> bad[i].value,
                           unit |-> std.unit, min |-> std.min, max |-> std.max,
                           severity |-> IF bad[i].value < std.min THEN "low" ELSE "high"]

C23_Witness ==
    /\ op = "checkSensorValidity"
    /\ Len(input.sensorData) = 3
    /\ input.sensorData[1].key = "humidity"
    /\ input.sensorData[2].key = "ph" /\ input.sensorData[2].value = 65
    /\ input.sensorData[3].key = "moisture" /\ input.sensorData[3].value = 1000
    /\ Len(output.issues) = 1
    /\ output.issues[1].severity = "high"

\* C24: the status suspicious is returned only for a non-empty mapping whose
\* values all equal 100; a mapping with a value other than 100 is never
\* suspicious.
C24_SuspiciousOnlyAllHundred ==
    (op = "assessSensorCredibility" /\ output.status = "suspicious")
    => /\ input.sensorData # <<>>
       /\ \A i \in 1..Len(input.sensorData) : input.sensorData[i].value = 1000

C24_Witness ==
    /\ op = "assessSensorCredibility"
    /\ output.status = "suspicious"
    /\ Len(input.sensorData) = 2
    /\ input.sensorData[1].key = "nitrogen"

\* C25: the level is high iff requiresImmediateAction is true, and medium iff
\* it is false and the status is malfunctioning; EARLY WARNING always has
\* level high, and a verdict containing WARNING never has level medium
\* without a malfunctioning status.
C25_LevelFollowsImmediateAction ==
    Analyzed
    => LET ria == output.intelligentDiagnosis.requiresImmediateAction
           status == output.sensorAssessment.status
           level == output.emergencyLevel.level
           verdict == output.intelligentDiagnosis.verdict
       IN  /\ level = "high" <=> ria
           /\ level = "medium" <=> (~ria /\ status = "malfunctioning")
           /\ verdict = "EARLY WARNING" => level = "high"
           /\ (Includes(verdict, "WARNING") /\ level = "medium")
              => status = "malfunctioning"

C25_Witness ==
    /\ Analyzed
    /\ output.intelligentDiagnosis.verdict = "EARLY WARNING"
    /\ output.sensorAssessment.status = "suspicious"
    /\ output.emergencyLevel.level = "high"

ThreeClasses == {"healthy", "nutrient_deficient", "diseased"}

\* C26: for a prediction in the three classes the verdict is never
\* INCONCLUSIVE; the verdict is INCONCLUSIVE exactly when the prediction is
\* outside the classes and some reading is out of range, and a prediction
\* outside the classes with no reading out of range gives VISUAL ISSUE
\* DETECTED.
C26_InconclusiveOnlyOutsideClasses ==
    Analyzed
    => LET verdict == output.intelligentDiagnosis.verdict
           outside == input.aiResult.prediction \notin ThreeClasses
       IN  /\ verdict = "INCONCLUSIVE"
              <=> (outside /\ Offending(input.sensorData) # <<>>)
           /\ (outside /\ Offending(input.sensorData) = <<>>)
              => verdict = "VISUAL ISSUE DETECTED"

C26_Witness ==
    /\ Analyzed
    /\ input.aiResult.prediction = "unknown"
    /\ Len(Offending(input.sensorData)) = 2
    /\ output.intelligentDiagnosis.verdict = "INCONCLUSIVE"
    /\ output.emergencyLevel.level = "low"

\* C27: for the empty readings mapping (what the route uses when sensorData
\* is missing or is not JSON) the status is malfunctioning and the issues
\* list empty; a healthy prediction gives PLANT IS HEALTHY, level medium and
\* exactly [CHECK SENSOR CONNECTIONS], any other prediction VISUAL ISSUE
\* DETECTED, level high and [ISOLATE PLANT, CHECK SENSOR CONNECTIONS].
C27_EmptyReadings ==
    /\ \A field \in SensorDataFields :
           field.kind \in {"absent", "garbled"} => ParseSensorData(field) = <<>>
    /\ (op = "analyzeSituation" /\ input.sensorData = <<>>)
       => /\ ~Threw(output)
          /\ output.sensorAssessment.status = "malfunctioning"
          /\ output.sensorAssessment.issues = <<>>
          /\ IF input.aiResult.prediction = "healthy"
             THEN /\ output.intelligentDiagnosis.verdict = "PLANT IS HEALTHY"
                  /\ output.emergencyLevel.level = "medium"
                  /\ output.recommendations
                       = <<[action |-> "CHECK SENSOR CONNECTIONS", priority |-> 1]>>
             ELSE /\ output.intelligentDiagnosis.verdict = "VISUAL ISSUE DETECTED"
                  /\ output.emergencyLevel.level = "high"
                  /\ Actions(output.recommendations)
                       = <<"ISOLATE PLANT", "CHECK SENSOR CONNECTIONS">>

C27_Witness ==
    /\ op = "analyzeSituation"
    /\ input.sensorData = <<>>
    /\ input.aiResult.prediction = "diseased"
    /\ output.intelligentDiagnosis.verdict = "VISUAL ISSUE DETECTED"
    /\ Len(output.recommendations) = 2

\* C28: ISOLATE PLANT is in the list iff the level is high, at most once, and
\* then first; every other recommendation except CHECK SENSOR CONNECTIONS has
\* a priority of at least 2.
C28_IsolateIffHigh ==
    Analyzed
    => LET recs == output.recommendations
           isolate == {i \in 1..Len(recs) : recs[i].action = "ISOLATE PLANT"}
       IN  /\ isolate # {} <=> output.emergencyLevel.level = "high"
           /\ Cardinality(isolate) <= 1
           /\ isolate \subseteq {1}
           /\ \A i \in 1..Len(recs) :
                  recs[i].action \notin {"ISOLATE PLANT", "CHECK SENSOR CONNECTIONS"}
                  => recs[i].priority >= 2

C28_Witness ==
    /\ Analyzed
    /\ output.emergencyLevel.level = "low"
    /\ Len(output.recommendations) = 3
    /\ \A i \in 1..3 : output.recommendations[i].action # "ISOLATE PLANT"

\* the nutrients named by the sensor entries of a deficiency list, in order
DeficiencyNutrients(deficiencies) ==
    LET sensor == SelectSeq(deficiencies, LAMBDA d : d.type = "sensor")
    IN  [i \in 1..Len(sensor) |->
            CASE sensor[i].deficiency = "NITROGEN"   -> "nitrogen"
              [] sensor[i].deficiency = "PHOSPHORUS" -> "phosphorus"
              [] sensor[i].deficiency = "POTASSIUM"  -> "potassium"]

\* the nutrients named by the nutrient actions of a recommendation list
ActionNutrients(recs) ==
    LET nutrient == SelectSeq(recs, LAMBDA r : r.action \in {NutrientActions[n] : n \in 1..3}
                                                \/ r.action = "APPLY BALANCED FERTILIZER")
    IN  [i \in 1..Len(nutrient) |->
            CASE nutrient[i].action = NutrientActions[1] -> "nitrogen"
              [] nutrient[i].action = NutrientActions[2] -> "phosphorus"
              [] nutrient[i].action = NutrientActions[3] -> "potassium"
              [] OTHER -> "other"]

\* C29: without an estimate (ec or ph absent) and with a status other than
\* malfunctioning, the sensor entries of the deficiency list and the nutrient
\* actions of the recommendation list name the same nutrients in the same
\* order.
C29_DeficienciesMatchActions ==
    (/\ Analyzed
     /\ ~(Has(input.sensorData, "ec") /\ Has(input.sensorData, "ph"))
     /\ output.sensorAssessment.status # "malfunctioning")
    => DeficiencyNutrients(output.deficiencies) = ActionNutrients(output.recommendations)

C29_Witness ==
    /\ Analyzed
    /\ Has(input.sensorData, "ec") /\ ~Has(input.sensorData, "ph")
    /\ output.sensorAssessment.status # "malfunctioning"
    /\ DeficiencyNutrients(output.deficiencies) = <<"nitrogen", "potassium">>
    /\ ActionNutrients(output.recommendations) = <<"nitrogen", "potassium">>

ImmediateTemplate ==
    [title |-> "WHAT TO DO NEXT",
     steps |-> <<"1. Review emergency actions below",
                 "2. Implement highest priority recommendations first",
                 "3. Take photos after treatment for comparison",
                 "4. Re-analyze in 3-5 days">>,
     buttonText |-> "TAKE EMERGENCY ACTION"]

RoutineTemplate ==
    [title |-> "RECOMMENDED NEXT STEPS",
     steps |-> <<"1. Review recommendations below",
                 "2. Adjust care routine as suggested",
                 "3. Monitor plant daily",
                 "4. Re-analyze weekly for improvements">>,
     buttonText |-> "VIEW ACTION PLAN"]

\* C14: the next-steps block of every result is the immediate-action template
\* when requiresImmediateAction is true and the routine template otherwise;
\* no third block (another button label) occurs.
C14_TwoNextStepsTemplates ==
    Analyzed
    => output.nextSteps = IF output.intelligentDiagnosis.requiresImmediateAction
                          THEN ImmediateTemplate ELSE RoutineTemplate

C14_Witness ==
    /\ Analyzed
    /\ output.intelligentDiagnosis.verdict = "SENSOR MALFUNCTION"
    /\ output.emergencyLevel.level = "medium"
    /\ output.nextSteps = RoutineTemplate

----------------------------------------------------------------------------
(* Properties of the route *)

\* the classifier invocation failed: the promise was rejected, or the
\* classifier's own JSON reported prediction 'error'
ClassifierFailed ==
    \/ promise.state = "rejected"
    \/ promise.state = "resolved" /\ promise.value.prediction = "error"

\* C8 as stated: after a failed or timed out classifier invocation the route
\* runs the engine exactly once on the mock classification and answers with
\* a success response.
C8_FailureUsesMock ==
    (pc = "done" /\ req.hasFile /\ ClassifierFailed)
    => /\ Len(engine) = 1
       /\ engine[1] \in mockImageAnalysis
       /\ Len(res) = 1
       /\ res[1].success
       /\ res[1].mode = "mock"

\* C12: the response's mode is 'mock' exactly when the engine was handed the
\* substituted fallback (the classifier promise was rejected) and 'ai'
\* exactly when it was handed the value the classifier promise resolved to.
C12_ModeMarksFallback ==
    (pc = "done" /\ req.hasFile /\ res # <<>> /\ res[1].success)
    => /\ res[1].mode = "mock"
          <=> (promise.state = "rejected" /\ engine[1] \in mockImageAnalysis)
       /\ res[1].mode = "ai"
          <=> (promise.state = "resolved" /\ engine[1] = promise.value)

C12_Witness ==
    /\ pc = "done"
    /\ promise.state = "rejected"
    /\ promise.reason = "Python script timeout"
    /\ res # <<>>
    /\ res[1].mode = "mock"

\* C18 as stated: every vision result the route hands to analyzeSituation has
\* a prediction among healthy, nutrient_deficient and diseased; a reported
\* 'error' never reaches the engine, whichever way the output was parsed.
C18_EngineNeverSeesError ==
    \A i \in 1..Len(engine) :
        engine[i].prediction \in {"healthy", "nutrient_deficient", "diseased"}

Settled == promise.state \in {"resolved", "rejected"}

\* a settled promise keeps its outcome
SettledStays == Settled => promise' = promise

\* the first end callback, error event or timer callback settles the promise
FirstEventSettles ==
    (promise.state = "pending" /\ (pyshell' # pyshell \/ timer' # timer))
    => promise'.state \in {"resolved", "rejected"}

\* the timer callback: nothing for a terminated process, else a kill and,
\* when it comes first, the timeout rejection
TimerStep ==
    (timer = "armed" /\ timer' = "fired")
    => IF pyshell.terminated
       THEN pyshell' = pyshell /\ promise' = promise
       ELSE /\ pyshell'.state = "killed"
            /\ promise.state = "pending"
               => promise' = [state |-> "rejected", reason |-> "Python script timeout"]

\* C19: analyzeImage settles exactly once, with the outcome of the first of
\* end callback, error event and timer; the timer kills a process that has
\* not terminated and rejects with a timeout, and does nothing for a
\* terminated one; later events change neither the outcome nor the number of
\* responses, and every request with a file eventually has exactly one
\* response.
C19_SettlesOnceAndResponds ==
    /\ [][SettledStays /\ FirstEventSettles /\ TimerStep]_vars
    /\ [](Len(res) <= 1)
    /\ [][pc = "done" => res' = res]_vars
    /\ (pc = "awaiting") ~> (pc = "done" /\ Len(res) = 1)

C19_Witness ==
    /\ pc = "done" /\ req.hasFile /\ Len(res) = 1
    /\ timer = "fired"
    /\ pyshell.state = "closed" /\ ~pyshell.err
    /\ pyshell.output.json.kind = "object"
    /\ promise = [state |-> "rejected", reason |-> "Python script timeout"]
    /\ engine[1] \in mockImageAnalysis

\* C30: a request without an image file gets exactly one response, a 400
\* with success false, and neither the classifier nor the engine runs for it.
C30_NoFileBadRequest ==
    (pc # "idle" /\ ~req.hasFile)
    => /\ pc = "done"
       /\ res = <<[status |-> 400, success |-> FALSE]>>
       /\ pyshell.state = "none"
       /\ promise.state = "none"
       /\ timer = "unset"
       /\ engine = <<>>

C30_Witness ==
    /\ pc = "done"
    /\ ~req.hasFile
    /\ Len(res) = 1 /\ res[1].status = 400
    /\ engine = <<>>

----------------------------------------------------------------------------
(* Properties of two concurrent requests *)

\* C11 as stated: under every interleaving each request's classifier reads
\* that request's own image and each response is computed from the request's
\* own classification and readings only.
C11_RequestsIsolated ==
    \A r \in Requests :
        /\ reqs[r].pc \in {"classified", "done"} => reqs[r].read = reqs[r].image
        /\ reqs[r].pc = "done"
           => reqs[r].response
              = Response(Classify(reqs[r].image),
                         analyzeSituation(Classify(reqs[r].image), reqs[r].sensorData))

====
